---- MODULE Spec2Model ----
(***************************************************************************)
(* uploadImgCloudPlugin (src/src/index.ts): an Rsbuild plugin that records *)
(* image resource paths in a transform hook, uploads the emitted image     *)
(* assets to COS in a processAssets hook and rewrites quoted image         *)
(* references in emitted script assets to CDN URLs.                        *)
(*                                                                         *)
(* Strings are sequences of one-character strings, so that basename,       *)
(* includes, the RegExp tests and String.replace are computed as the code  *)
(* computes them.                                                          *)
(***************************************************************************)
EXTENDS Naturals, Sequences, FiniteSets

VARIABLES
    options,      \* the plugin's options and process.env.NODE_ENV, fixed at setup
    imageUrlMap,  \* the Map of setup(), in insertion order: <<[k, v], ...>>
    pass,         \* number of the current build pass
    pc,           \* "build" (modules are transformed), "await" (processAssets
                  \* is suspended on a putObject promise), "done"
    emitted,      \* the assets as handed to the processAssets hook in this pass
    assets,       \* compilation.assets: <<[name, source], ...>>
    inFlight,     \* indices of the assets whose putObject callback is outstanding
    log,          \* putObject calls and callbacks of this pass, in order
    updated,      \* names passed to compilation.updateAsset in this pass
    rewrote,      \* the script-rewriting loop of this pass has run
    thrown,       \* an error left the processAssets callback in this pass
    nTransforms,  \* transform hook calls so far
    nImages       \* image assets emitted so far

vars == <<options, imageUrlMap, pass, pc, emitted, assets, inFlight,
          log, updated, rewrote, thrown, nTransforms, nImages>>

\* ---------------------------------------------------------------- bounds
\* Build passes (rebuilds) of one plugin instance.
MaxPasses == 2
\* Image assets emitted over all passes of one plugin instance.
MaxImages == 2
\* Calls of the transform hook over all passes of one plugin instance.
MaxTransforms == 1

\* ---------------------------------------------------------------- strings
DQ == "\""
SQ == "'"
Quotes == {DQ, SQ}

Slash == "/"
Dot == "."

Max(S) == CHOOSE x \in S : \A y \in S : y <= x

EndsWith(s, t) ==
    /\ Len(t) <= Len(s)
    /\ SubSeq(s, Len(s) - Len(t) + 1, Len(s)) = t

\* String.prototype.includes
Includes(s, t) ==
    \E i \in 0..(Len(s) - Len(t)) : SubSeq(s, i + 1, i + Len(t)) = t

\* Index of the last occurrence of character c in s, 0 when there is none.
LastIndexOf(s, c) == Max({0} \cup {i \in 1..Len(s) : s[i] = c})

\* path.basename (POSIX) of a path that does not end in a slash.
Basename(p) == SubSeq(p, LastIndexOf(p, Slash) + 1, Len(p))

\* path.extname: from the last dot of the base name, "" when there is no dot
\* or the only dot is the first character of the base name.
Extname(p) ==
    LET b == Basename(p)
        d == LastIndexOf(b, Dot)
    IN  IF d <= 1 THEN <<>> ELSE SubSeq(b, d, Len(b))

\* ---------------------------------------------------------------- inputs
png == <<".", "p", "n", "g">>
gif == <<".", "g", "i", "f">>

\* Emitted image assets (keys of compilation.assets).
ImgA == <<"s", "/", "a">> \o png
ImgBA == <<"s", "/", "b", "a">> \o png
ImgTA == <<"t", "/", "a">> \o png
ImgE == <<"s", "/", "e">> \o gif
ImageFiles == {ImgA, ImgBA, ImgTA, ImgE}

\* asset.source() of each emitted image; ImgE is an empty source.
ImageBody(f) ==
    IF f = ImgA \/ f = ImgTA THEN <<"A">>
    ELSE IF f = ImgBA THEN <<"B">>
    ELSE <<>>

\* Resource paths the host hands to the transform hook.
ResA == <<"r", "/", "a">> \o png
ResBA == <<"r", "/", "b", "a">> \o png
ResTs == <<"r", "/", "m", ".", "t", "s">>
ResourcePaths == {ResA, ResBA, ResTs}

\* Emitted script assets.
ScriptJs == <<"m", ".", "j", "s">>
ScriptJsx == <<"m", ".", "j", "s", "x">>

Lit(q, s) == <<q>> \o s \o <<q>>

\* Script contents: quoted references to emitted images.
SrcBA == Lit(SQ, ImgBA)
SrcATA == Lit(DQ, ImgA) \o <<"+">> \o Lit(SQ, ImgTA)

\* The script asset of a pass.
Scripts ==
    { [name |-> ScriptJs, source |-> SrcATA],
      [name |-> ScriptJsx, source |-> <<>>],
      [name |-> ScriptJsx, source |-> SrcBA],
      [name |-> ScriptJsx, source |-> SrcATA] }

\* ---------------------------------------------------------------- options
Bucket == <<"b">>
Region == <<"r">>

\* options and process.env.NODE_ENV; cos and oss stand for "is configured",
\* cdnBaseUrl and pathPrefix are <<>> when unset (both are set or neither
\* is). The skip test reads oss only when cos is unset and uploadInDev only
\* in development (&& short-circuits), so they vary only there.
OptionSets ==
    { o \in [ cos : BOOLEAN, oss : BOOLEAN, isDev : BOOLEAN,
              uploadInDev : BOOLEAN, keepFilename : BOOLEAN,
              cdnBaseUrl : { <<>>, <<"c", "/">> },
              pathPrefix : { <<>>, <<"i", "/">> } ] :
        /\ o.oss => ~o.cos
        /\ o.uploadInDev => o.isDev
        /\ (o.cdnBaseUrl = <<>>) <=> (o.pathPrefix = <<>>) }

\* ---------------------------------------------------------------- helpers
Min(S) == CHOOSE x \in S : \A y \in S : x <= y

\* /\.(png|jpe?g|gif|svg|webp)$/.test(name)
IsImage(name) ==
    \E e \in { <<".", "p", "n", "g">>, <<".", "j", "p", "g">>,
               <<".", "j", "p", "e", "g">>, <<".", "g", "i", "f">>,
               <<".", "s", "v", "g">>, <<".", "w", "e", "b", "p">> } :
        EndsWith(name, e)

\* /\.(j|t)s(x)$/.test(name)
IsScript(name) ==
    \E e \in { <<".", "j", "s", "x">>, <<".", "t", "s", "x">> } :
        EndsWith(name, e)

\* A skip test that forgets the development environment.
ShouldSkipUploadNoDev(o) == ~o.cos /\ ~o.oss

\* (!options.cos && !options.oss) || (isDev && !options.uploadInDev)
ShouldSkipUpload(o) ==
    (~o.cos /\ ~o.oss) \/ (o.isDev /\ ~o.uploadInDev)

\* cosClient is non-null exactly when options.cos is set.
HasCosClient(o) == o.cos

\* shouldSkipUpload || !cosClient || !options.cos
ReturnsEarly(o) == ShouldSkipUpload(o) \/ ~HasCosClient(o) \/ ~o.cos

\* options.pathPrefix || 'images/'
PathPrefix(o) ==
    IF o.pathPrefix # <<>> THEN o.pathPrefix
    ELSE <<"i", "m", "a", "g", "e", "s", "/">>

\* crypto.createHash('md5').update(content).digest('hex').substring(0, 8)
\* of the image bodies of the model.
Hash8(content) ==
    IF content = <<"A">> THEN <<"7", "f", "c", "5", "6", "2", "7", "0">>
    ELSE IF content = <<"B">> THEN <<"9", "d", "5", "e", "d", "6", "7", "8">>
    ELSE <<"d", "4", "1", "d", "8", "c", "d", "9">>

\* An object key that keeps only the extension of the file name.
CosPathExtOnly(o, filename, content) ==
    IF o.keepFilename THEN PathPrefix(o) \o Extname(filename)
    ELSE PathPrefix(o) \o Hash8(content) \o Extname(filename)

\* The object key of an image asset.
CosPath(o, filename, content) ==
    IF o.keepFilename THEN PathPrefix(o) \o Basename(filename)
    ELSE PathPrefix(o) \o Hash8(content) \o Extname(filename)

\* cdnBaseUrl.replace(/\/$/, '')
StripSlash(s) ==
    IF Len(s) > 0 /\ s[Len(s)] = Slash THEN SubSeq(s, 1, Len(s) - 1) ELSE s

\* The CDN URL of an object key.
CdnUrl(o, cosPath) ==
    IF o.cdnBaseUrl # <<>>
    THEN StripSlash(o.cdnBaseUrl) \o <<Slash>> \o cosPath
    ELSE <<"h", "t", "t", "p", "s", ":", "/", "/">> \o Bucket
         \o <<".", "c", "o", "s", ".">> \o Region
         \o <<".", "m", "y", "q", "c", "l", "o", "u", "d", ".", "c", "o", "m", "/">>
         \o cosPath

\* Map.prototype.set: an existing key keeps its position.
MapSet(map, key, value) ==
    IF \E i \in 1..Len(map) : map[i].k = key
    THEN [i \in 1..Len(map) |->
            IF map[i].k = key THEN [k |-> key, v |-> value] ELSE map[i]]
    ELSE Append(map, [k |-> key, v |-> value])

\* The first entry whose path "matches" the emitted file name gets the URL;
\* without a match the file name itself becomes a key.
RecordUrl(map, filename, cdnUrl) ==
    LET hits == { i \in 1..Len(map) :
                    \/ Includes(map[i].k, Basename(filename))
                    \/ Includes(filename, Basename(map[i].k)) }
    IN  IF hits # {}
        THEN MapSet(map, map[Min(hits)].k, cdnUrl)
        ELSE MapSet(map, filename, cdnUrl)

\* ---------------------------------------------------------------- rewriting
\* One character of a file name used as a RegExp source: a dot matches any
\* character (the model's strings hold no line terminator), the letters,
\* digits and slashes of the model's names match themselves.
PatChar(p, c) == p = Dot \/ p = c

\* The lengths k of [^"']* for which ["']([^"']*name)["'] matches at pos.
MatchLens(content, name, pos) ==
    IF content[pos] \notin Quotes THEN {}
    ELSE { k \in 0..(Len(content) - pos - Len(name) - 1) :
             /\ \A j \in 1..k : content[pos + j] \notin Quotes
             /\ \A j \in 1..Len(name) : PatChar(name[j], content[pos + k + j])
             /\ content[pos + k + Len(name) + 1] \in Quotes }

\* content.replace(new RegExp(`["']([^"']*${name})["']`, 'g'), repl) from
\* position pos on: leftmost match first, [^"']* greedy, then on after the match.
RECURSIVE ReplaceFrom(_, _, _, _)
ReplaceFrom(content, name, repl, pos) ==
    IF pos > Len(content) THEN <<>>
    ELSE LET ks == MatchLens(content, name, pos)
         IN  IF ks # {}
             THEN repl \o ReplaceFrom(content, name, repl,
                                      pos + Max(ks) + Len(name) + 2)
             ELSE <<content[pos]>> \o ReplaceFrom(content, name, repl, pos + 1)

\* The loop over imageUrlMap.entries() for one script, from entry i on:
\* [content, hasChanges] at the end of the loop.
RECURSIVE RewriteFrom(_, _, _, _)
RewriteFrom(content, hasChanges, map, i) ==
    IF i > Len(map) THEN [content |-> content, hasChanges |-> hasChanges]
    ELSE IF map[i].v = <<>> THEN RewriteFrom(content, hasChanges, map, i + 1)
    ELSE LET newContent ==
                 ReplaceFrom(content, Basename(map[i].k), Lit(DQ, map[i].v), 1)
         IN  IF newContent # content
             THEN RewriteFrom(newContent, TRUE, map, i + 1)
             ELSE RewriteFrom(content, hasChanges, map, i + 1)

\* The script assets the rewriting loop visits.
Rewritable(a) == IsScript(a.name) /\ a.source # <<>>

\* compilation.assets after the rewriting loop.
RewriteAssets(as, map) ==
    [ i \in 1..Len(as) |->
        IF Rewritable(as[i])
        THEN LET r == RewriteFrom(as[i].source, FALSE, map, 1)
             IN  IF r.hasChanges
                 THEN [name |-> as[i].name, source |-> r.content]
                 ELSE as[i]
        ELSE as[i] ]

\* The names the rewriting loop passes to compilation.updateAsset.
UpdatedNames(as, map) ==
    { as[i].name : i \in { j \in 1..Len(as) :
        Rewritable(as[j]) /\ RewriteFrom(as[j].source, FALSE, map, 1).hasChanges } }

\* ---------------------------------------------------------------- uploads
\* The image assets the upload loop sends: a falsy source is skipped.
Uploadable(a) == IsImage(a.name) /\ a.source # <<>>

\* An upload loop that does not await the putObject promise.
NextPutsNoAwait(as, i) ==
    LET js == { j \in i..Len(as) : Uploadable(as[j]) }
        RECURSIVE Sorted(_)
        Sorted(S) == IF S = {} THEN <<>>
                     ELSE <<Min(S)>> \o Sorted(S \ {Min(S)})
    IN  Sorted(js)

\* The assets whose putObject is issued when the upload loop runs from asset
\* i until the handler suspends: the loop awaits each putObject promise, so
\* it is the first uploadable asset from i on, if any.
NextPuts(as, i) ==
    LET js == { j \in i..Len(as) : Uploadable(as[j]) }
    IN  IF js = {} THEN <<>> ELSE <<Min(js)>>

\* An upload loop without its try/catch.
UploadErrorUncaught == FALSE

\* The try/catch around the body of the upload loop catches the rejection
\* of the putObject promise.
UploadErrorCaught == TRUE

KeyOf(o, a) == CosPath(o, a.name, a.source)

PutEvent(o, a) == [ev |-> "put", file |-> a.name, key |-> KeyOf(o, a)]

\* The handler runs on from asset i of the upload loop, with imageUrlMap =
\* map, the log lg and the outstanding callbacks fl, until it suspends on a
\* putObject promise or returns after the rewriting loop.
Continue(as, i, map, lg, fl) ==
    LET js == NextPuts(as, i)
    IN  /\ imageUrlMap' = map
        /\ thrown' = FALSE
        /\ IF js # <<>>
           THEN /\ pc' = "await"
                /\ inFlight' = fl \cup { js[n] : n \in 1..Len(js) }
                /\ log' = lg \o [n \in 1..Len(js) |-> PutEvent(options, as[js[n]])]
                /\ assets' = as
                /\ updated' = {}
                /\ rewrote' = FALSE
           ELSE /\ pc' = "done"
                /\ inFlight' = fl
                /\ log' = lg
                /\ assets' = RewriteAssets(as, map)
                /\ updated' = UpdatedNames(as, map)
                /\ rewrote' = TRUE

\* ---------------------------------------------------------------- actions
Injective(s) == \A i, j \in 1..Len(s) : s[i] = s[j] => i = j

\* Sequences of at most n distinct emitted images.
ImageSeqs(n) ==
    UNION { { s \in [1..k -> ImageFiles] : Injective(s) } : k \in 0..n }

\* compilation.assets of a pass: the images, then one script.
AssetList(imgs, script) ==
    [ i \in 1..Len(imgs) |-> [name |-> imgs[i], source |-> ImageBody(imgs[i])] ]
    \o << script >>

Init ==
    /\ options \in OptionSets
       \* a handler that returns early reads none of these two
    /\ ReturnsEarly(options) =>
          options.keepFilename /\ options.cdnBaseUrl = <<>>
    /\ imageUrlMap = <<>>
    /\ pass = 1
    /\ pc = "build"
    /\ emitted = <<>>
    /\ assets = <<>>
    /\ inFlight = {}
    /\ log = <<>>
    /\ updated = {}
    /\ rewrote = FALSE
    /\ thrown = FALSE
    /\ nTransforms = 0
    /\ nImages = 0

\* The transform hook, called for the resources its test matches.
Transform(p) ==
    /\ pc = "build"
    /\ nTransforms < MaxTransforms
    /\ IsImage(p)
    /\ imageUrlMap' = MapSet(imageUrlMap, p, <<>>)
    /\ nTransforms' = nTransforms + 1
    /\ UNCHANGED <<options, pass, pc, emitted, assets, inFlight, log, updated,
                   rewrote, thrown, nImages>>

\* The processAssets hook is called with the assets of the compilation and
\* runs until its early return or its first await.
ProcessAssets(as) ==
    /\ pc = "build"
    /\ emitted' = as
    /\ nImages' = nImages + Cardinality({ i \in 1..Len(as) : IsImage(as[i].name) })
    /\ IF ReturnsEarly(options)
       THEN /\ pc' = "done"
            /\ assets' = as
            /\ UNCHANGED <<imageUrlMap, inFlight, log, updated, rewrote, thrown>>
       ELSE Continue(as, 1, imageUrlMap, <<>>, {})
    /\ UNCHANGED <<options, pass, nTransforms>>

\* The putObject callback of asset j fires, with an error or without, and the
\* handler runs on until its next await or its end.
PutCallback(j, err) ==
    /\ pc = "await"
    /\ j \in inFlight
    /\ LET a == assets[j]
           key == KeyOf(options, a)
           ev == [ev |-> IF err THEN "err" ELSE "ok", file |-> a.name, key |-> key]
       IN  IF err /\ ~UploadErrorCaught
           THEN /\ pc' = "done"
                /\ thrown' = TRUE
                /\ inFlight' = inFlight \ {j}
                /\ log' = Append(log, ev)
                /\ UNCHANGED <<imageUrlMap, assets, updated, rewrote>>
           ELSE Continue(assets, j + 1,
                         IF err THEN imageUrlMap
                         ELSE RecordUrl(imageUrlMap, a.name, CdnUrl(options, key)),
                         Append(log, ev), inFlight \ {j})
    /\ UNCHANGED <<options, pass, emitted, nTransforms, nImages>>

\* The host starts the next build (a rebuild) on the same plugin instance.
NextBuild ==
    /\ pc = "done"
    /\ pass < MaxPasses
    /\ pass' = pass + 1
    /\ pc' = "build"
    /\ emitted' = <<>>
    /\ assets' = <<>>
    /\ log' = <<>>
    /\ updated' = {}
    /\ rewrote' = FALSE
    /\ thrown' = FALSE
    /\ UNCHANGED <<options, imageUrlMap, inFlight, nTransforms, nImages>>

Next ==
    \/ \E p \in ResourcePaths : Transform(p)
    \/ \E imgs \in ImageSeqs(MaxImages - nImages), script \in Scripts :
          ProcessAssets(AssetList(imgs, script))
    \/ \E j \in inFlight, err \in BOOLEAN : PutCallback(j, err)
    \/ NextBuild

Spec == Init /\ [][Next]_vars

\* ---------------------------------------------------------------- properties
\* The quoted literals of a script, in order.
RECURSIVE RefsFrom(_, _)
RefsFrom(content, pos) ==
    IF pos > Len(content) THEN <<>>
    ELSE IF content[pos] \in Quotes
    THEN LET closes == { j \in (pos + 1)..Len(content) : content[j] = content[pos] }
         IN  IF closes = {} THEN <<>>
             ELSE <<SubSeq(content, pos + 1, Min(closes) - 1)>>
                  \o RefsFrom(content, Min(closes) + 1)
    ELSE RefsFrom(content, pos + 1)

Refs(content) == RefsFrom(content, 1)

Events(kind) == { n \in 1..Len(log) : log[n].ev = kind }

\* The configuration under which the handler is documented to upload:
\* cos configured and the upload not skipped.
UploadEnabled ==
    /\ options.cos
    /\ ~(options.isDev /\ ~options.uploadInDev)

\* The emitted files of this pass whose upload succeeded / failed.
Succeeded == { log[n].file : n \in Events("ok") }
Failed == { log[n].file : n \in Events("err") }

\* The CDN URL built from the upload key of emitted image f.
OwnUrl(f) == CdnUrl(options, CosPath(options, f, ImageBody(f)))

\* A script by its name: .js, .jsx, .ts, .tsx
ScriptName(name) ==
    \E e \in { <<".", "j", "s">>, <<".", "j", "s", "x">>,
               <<".", "t", "s">>, <<".", "t", "s", "x">> } : EndsWith(name, e)

PassDone == pc = "done" /\ UploadEnabled /\ ~thrown

\* C1: after a pass with uploading enabled, every quoted reference of every
\* emitted script (plain .js included) that ends in the file name of an image
\* uploaded successfully in the pass is replaced by that image's CDN URL.
C1_ScriptRefsRewritten ==
    PassDone =>
        \A i \in 1..Len(emitted) :
            (ScriptName(emitted[i].name) /\ emitted[i].source # <<>>) =>
                LET r0 == Refs(emitted[i].source)
                    r1 == Refs(assets[i].source)
                IN  \A k \in 1..Len(r0) :
                        (\E f \in Succeeded : EndsWith(r0[k], Basename(f))) =>
                            /\ Len(r1) = Len(r0)
                            /\ \E f \in Succeeded :
                                  /\ EndsWith(r0[k], Basename(f))
                                  /\ r1[k] = OwnUrl(f)

\* C2: a reference to an image A uploaded in the pass is never rewritten to a
\* CDN URL other than the one built from A's own upload key.
C2_OwnUrlOnly ==
    PassDone =>
        \A i \in 1..Len(emitted) :
            LET r0 == Refs(emitted[i].source)
                r1 == Refs(assets[i].source)
            IN  /\ Len(r1) = Len(r0)
                /\ \A k \in 1..Len(r0) :
                      r0[k] \in Succeeded =>
                          r1[k] \in { r0[k], OwnUrl(r0[k]) }

\* C3: at most one putObject is in flight, and a putObject is issued only
\* after the callback of every earlier putObject of the pass has fired.
C3_UploadsSequential ==
    /\ Cardinality(inFlight) <= 1
    /\ \A p \in Events("put") : \A q \in Events("put") :
          q < p => \E r \in (q + 1)..(p - 1) :
                      /\ log[r].ev \in {"ok", "err"}
                      /\ log[r].file = log[q].file

\* Two uploads in one pass, the second issued after the first one failed.
C3_Witness ==
    /\ pc = "await"
    /\ Cardinality(Events("put")) = 2
    /\ Cardinality(Events("err")) = 1

\* C4: a putObject error does not leave the handler, the image is not put
\* again, every uploadable image of the pass is still put exactly once and
\* the rewriting loop still runs.
C4_FailureIsolated ==
    /\ ~thrown
    /\ \A p \in Events("put") : \A q \in Events("put") :
          log[p].file = log[q].file => p = q
    /\ (pc = "done" /\ UploadEnabled) =>
          /\ rewrote
          /\ \A i \in 1..Len(emitted) :
                Uploadable(emitted[i]) =>
                    \E p \in Events("put") : log[p].file = emitted[i].name

\* A failed upload, followed by a successful one, and a script rewritten.
C4_Witness ==
    /\ pc = "done"
    /\ \E e \in Events("err") : \E o \in Events("ok") : e < o
    /\ updated # {}

\* C5: in a later pass imageUrlMap holds no CDN URL written in an earlier
\* pass: every URL in it is the URL of an upload that succeeded in this pass.
C5_MapConfinedToPass ==
    pass > 1 =>
        \A n \in 1..Len(imageUrlMap) :
            imageUrlMap[n].v # <<>> =>
                \E e \in Events("ok") :
                    imageUrlMap[n].v = CdnUrl(options, log[e].key)

\* The configurations in which uploading is skipped, read off the options.
SkipConfigured ==
    \/ ~options.cos /\ ~options.oss
    \/ options.isDev /\ ~options.uploadInDev
    \/ ~options.cos

\* C7: when uploading is skipped, no putObject is issued, updateAsset is
\* called on no asset, and every imageUrlMap value stays the empty string.
C7_SkipIsInert ==
    SkipConfigured =>
        /\ log = <<>>
        /\ inFlight = {}
        /\ updated = {}
        /\ assets = emitted
        /\ \A n \in 1..Len(imageUrlMap) : imageUrlMap[n].v = <<>>

\* A skipped pass (cos configured, development) over a recorded image, an
\* uploadable image and a script that refers to one.
C7_Witness ==
    /\ SkipConfigured
    /\ options.cos
    /\ pc = "done"
    /\ imageUrlMap # <<>>
    /\ \E i \in 1..Len(emitted) : Uploadable(emitted[i])
    /\ \E i \in 1..Len(emitted) :
          Rewritable(emitted[i]) /\ Refs(emitted[i].source) # <<>>

\* C8: a reference to an emitted image whose upload failed is left unchanged,
\* whatever other images were uploaded in the pass.
C8_FailedNotRewritten ==
    PassDone =>
        \A i \in 1..Len(emitted) :
            LET r0 == Refs(emitted[i].source)
                r1 == Refs(assets[i].source)
            IN  /\ Len(r1) = Len(r0)
                /\ \A k \in 1..Len(r0) :
                      (r0[k] \in Failed /\ r0[k] \notin Succeeded) => r1[k] = r0[k]

\* C9 as stated: with keepFilename, two distinct images of a pass are never
\* put to the same object key.
C9_DistinctKeys ==
    options.keepFilename =>
        \A p \in Events("put") : \A q \in Events("put") :
            log[p].file # log[q].file => log[p].key # log[q].key

\* C9 as amended: with keepFilename, two images of a pass are put to the same
\* object key, and get the same CDN URL, exactly when their base names are
\* equal; images with different base names never share a key or a URL.
C9_KeysFollowBasenames ==
    options.keepFilename =>
        \A p \in Events("put") : \A q \in Events("put") :
            /\ (log[p].key = log[q].key)
                  <=> (Basename(log[p].file) = Basename(log[q].file))
            /\ (CdnUrl(options, log[p].key) = CdnUrl(options, log[q].key))
                  <=> (Basename(log[p].file) = Basename(log[q].file))

\* Two images of one pass whose base names differ, one a suffix of the other.
C9_Witness ==
    /\ options.keepFilename
    /\ \E p \in Events("put") : \E q \in Events("put") :
          log[p].file = ImgA /\ log[q].file = ImgBA

====
